---- MODULE Spec2Model ----
(***************************************************************************)
(* Model of update_etf_data.py: the percent-change calculator, the two     *)
(* tiered fetch chains (holdings, ETF returns), the batch stock-returns    *)
(* retriever, the three serializers, the regex patcher and main.           *)
(*                                                                         *)
(* Units.  Percent values rounded to 1 decimal are held as integers in     *)
(* tenths (33.3 is 333).  Holding weights are held as integers: source     *)
(* weights in thousandths (7.514 is 7514), stored weights in hundredths    *)
(* (7.51 is 751).  Dates are integer day numbers.                          *)
(***************************************************************************)
EXTENDS Integers, Sequences, FiniteSets, TLC

VARIABLES pc, inp, out, html, disk, writes, stock_rets, holdings_by_etf, etf_rets_by_etf, idx,
          since_req, gaps

vars == <<pc, inp, out, html, disk, writes, stock_rets, holdings_by_etf, etf_rets_by_etf, idx,
          since_req, gaps>>

mainVars == <<html, disk, writes, stock_rets, holdings_by_etf, etf_rets_by_etf, idx,
              since_req, gaps>>

\* since_req: the delay (in tenths of a second) slept since the last request
\* to justetf.com, -1 before the first request; gaps: the delays that lay
\* between two consecutive requests to justetf.com so far.

\* Scalar values are records [k, v]: k = "num" carries the number v; the
\* other kinds carry v = 0.

\* Python's None
None == [k |-> "none", v |-> 0]

\* a float with value v (in the unit of its context)
F(v) == [k |-> "num", v |-> v]

\* float('nan'): every ordered comparison with it is False
NaN == [k |-> "nan", v |-> 0]

\* a text that float() rejects with ValueError
Bad == [k |-> "bad", v |-> 0]

Abs(n) == IF n < 0 THEN -n ELSE n

\* round(): nearest integer to n/d (d > 0), an exact tie going to the even one
RoundDiv(n, d) ==
  LET q == n \div d
      r == n % d
  IN  IF 2 * r < d THEN q
      ELSE IF 2 * r > d THEN q + 1
      ELSE IF q % 2 = 0 THEN q ELSE q + 1

\* ---------------------------------------------------------------- Config

ETFS == <<"XUTC", "SP20", "EQQQ", "WTAI", "CSPX", "VWCE">>

PERIODS == <<"1M", "3M", "6M", "1Y", "3Y", "5Y">>

PeriodSet == {PERIODS[k] : k \in 1..Len(PERIODS)}

PERIOD_DAYS == [p \in PeriodSet |->
  CASE p = "1M" -> 31
    [] p = "3M" -> 92
    [] p = "6M" -> 183
    [] p = "1Y" -> 365
    [] p = "3Y" -> 365 * 3
    [] p = "5Y" -> 365 * 5]

\* ---------------------------------------------------------------- pct_change

\* a price series: observations [d |-> day, v |-> price] in ascending day order

\* the window with the boundary observation left out (>)
WindowFrom_Exclusive(series, cutoff_date) == SelectSeq(series, LAMBDA o : o.d > cutoff_date)

\* series[series.index >= cutoff_date]
WindowFrom(series, cutoff_date) == SelectSeq(series, LAMBDA o : o.d >= cutoff_date)

\* round((end_price / start_price - 1) * 100, 1), in tenths
PctRound(end_price, start_price) ==
  IF start_price > 0
  THEN RoundDiv(1000 * (end_price - start_price), start_price)
  ELSE RoundDiv(1000 * (start_price - end_price), -start_price)

pct_change(series, days) ==
  IF series = <<>> THEN None
  ELSE LET end_price   == series[Len(series)].v
           cutoff_date == series[Len(series)].d - days
           window      == WindowFrom(series, cutoff_date)
       IN  IF window = <<>> THEN None
           ELSE LET start_price == window[1].v
                IN  IF start_price = 0 THEN None
                    ELSE F(PctRound(end_price, start_price))

\* ---- inputs of the pct_change check
MaxSeriesLen == 3

DayChoices == {-1825, -400, -365, -200, -31, 0}

\* prices for which (end/start - 1) * 1000 is never an exact tie
PriceChoices == {0, 100, 150, 200}

WindowChoices == {-31, 0} \cup {PERIOD_DAYS[p] : p \in PeriodSet}

IsAscending(s) == \A k \in 1..(Len(s) - 1) : s[k].d < s[k + 1].d

Observations == [d : DayChoices, v : PriceChoices]

SeriesChoices ==
  {s \in UNION {[1..n -> Observations] : n \in 0..MaxSeriesLen} : IsAscending(s)}

MainIdle ==
  /\ html = <<>>
  /\ disk = <<>>
  /\ writes = 0
  /\ stock_rets = <<>>
  /\ holdings_by_etf = <<>>
  /\ etf_rets_by_etf = <<>>
  /\ idx = 0
  /\ since_req = -1
  /\ gaps = {}

InitPct ==
  /\ pc = "start"
  /\ inp \in [series : SeriesChoices, days : WindowChoices]
  /\ out = None
  /\ MainIdle

CallPctChange ==
  /\ pc = "start"
  /\ out' = pct_change(inp.series, inp.days)
  /\ pc' = "done"
  /\ UNCHANGED <<inp, mainVars>>

NextPct == CallPctChange

SpecPct == InitPct /\ [][NextPct]_vars

\* ---- C9
ObsSet(series) == {series[k] : k \in 1..Len(series)}

ObsFromCutoff(series, days) ==
  {o \in ObsSet(series) : o.d >= series[Len(series)].d - days}

EarliestObs(S) == CHOOSE o \in S : \A o2 \in S : o.d <= o2.d

ExampleSeries == <<[d |-> -400, v |-> 100], [d |-> -200, v |-> 150], [d |-> 0, v |-> 200]>>

\* C9: for an ascending series and a window of days, pct_change is
\* missing exactly when the series is empty, no observation is on or after
\* the cutoff (last date minus window), or the start price is 0; otherwise it
\* is round((end/start - 1) * 100, 1) with end the last value and start the
\* value of the earliest observation dated on or after the cutoff (inclusive);
\* the points (-400,100), (-200,150), (0,200) give 33.3 for 365 days and 100.0
\* for 1825 days.
C9_PctChange ==
  pc = "done" =>
    LET s == inp.series
        W == ObsFromCutoff(s, inp.days)
        missing == s = <<>> \/ W = {} \/ EarliestObs(W).v = 0
    IN  /\ (out = None) <=> missing
        /\ ~missing =>
             LET e  == s[Len(s)].v
                 st == EarliestObs(W).v
             IN  /\ out.k = "num"
                 /\ Abs(2 * out.v * st - 2000 * (e - st)) <= Abs(st)
        /\ (s = ExampleSeries /\ inp.days = 365) => out = F(333)
        /\ (s = ExampleSeries /\ inp.days = 1825) => out = F(1000)

\* an observation sits exactly on the cutoff and the result is a number
C9_Witness ==
  /\ pc = "done"
  /\ inp.series # <<>>
  /\ inp.days > 0
  /\ \E o \in ObsSet(inp.series) : o.d = inp.series[Len(inp.series)].d - inp.days
  /\ out.k = "num"
  /\ out.v # 0

\* ---------------------------------------------------------------- texts

\* A text (and a document) is a sequence of tokens [t, v]: t names a piece of
\* text, v is the number a formatted-number token shows (0 otherwise).
Tk(t) == [t |-> t, v |-> 0]

\* a blank
SP == Tk(" ")

\* An optional text is [has, s] (has = FALSE for an absent key or a JSON null).
NoText == [has |-> FALSE, s |-> <<>>]

Txt(s) == [has |-> TRUE, s |-> s]

\* truthiness of an optional text: None and "" are falsy
TruthyT(t) == t.has /\ t.s # <<>>

\* truthiness of a scalar: None and 0 are falsy, nan and a non-empty string truthy
TruthyS(x) == x.k \in {"bad", "nan"} \/ (x.k = "num" /\ x.v # 0)

RECURSIVE LStrip(_)
LStrip(s) == IF s # <<>> /\ Head(s) = SP THEN LStrip(Tail(s)) ELSE s

RECURSIVE RStrip(_)
RStrip(s) ==
  IF s # <<>> /\ s[Len(s)] = SP THEN RStrip(SubSeq(s, 1, Len(s) - 1)) ELSE s

\* str.strip()
Strip(s) == RStrip(LStrip(s))

\* seq[:n]
Take(s, n) == SubSeq(s, 1, IF Len(s) < n THEN Len(s) ELSE n)

\* ---------------------------------------------------------------- holdings chain

TOP_N == 15

\* A value found under a key of the JSON payload: t = "absent" (missing key,
\* null or any other falsy non-list), "list" (items may be empty), "other" (a
\* truthy value that is not a list).
Absent == [t |-> "absent", items |-> <<>>]

ListVal(items) == [t |-> "list", items |-> items]

OtherVal == [t |-> "other", items |-> <<>>]

TruthyV(val) == val.t = "other" \/ (val.t = "list" /\ val.items # <<>>)

\* "weight" in str(item).lower(): the record has a weight key
HasWeightWord(item) == item.shape = "map" /\ item.weight.k # "none"

\* data.get("topHoldings") or data.get("holdings") or [], then the scan of
\* the remaining keys for a list whose first element mentions "weight"
RawHoldings(data) ==
  IF TruthyV(data.topHoldings) THEN data.topHoldings
  ELSE IF TruthyV(data.holdings) THEN data.holdings
  ELSE IF data.extra.t = "list" /\ data.extra.items # <<>>
          /\ HasWeightWord(data.extra.items[1])
       THEN data.extra
       ELSE Absent

\* item.get("ticker") or item.get("symbol") or item.get("isin") or ""
ItemTicker(item) ==
  IF TruthyT(item.ticker) THEN item.ticker.s
  ELSE IF TruthyT(item.symbol) THEN item.symbol.s
  ELSE IF TruthyT(item.isin) THEN item.isin.s
  ELSE <<>>

\* item.get("name") or item.get("description") or ""
ItemName(item) ==
  IF TruthyT(item.name) THEN item.name.s
  ELSE IF TruthyT(item.description) THEN item.description.s
  ELSE <<>>

\* item.get("weight") or item.get("percentage") or 0
ItemWeightArg(item) ==
  IF TruthyS(item.weight) THEN item.weight
  ELSE IF TruthyS(item.percentage) THEN item.percentage
  ELSE F(0)

\* round(weight, 2): thousandths to hundredths
Round2(w) == IF w.k = "num" THEN F(RoundDiv(w.v, 10)) ELSE w

\* weight > 0 on a float
Positive(w) == w.k = "num" /\ w.v > 0

\* the item raises: item.get on a non-mapping, or float() of an unparseable text
ItemRaises(item) == item.shape # "map" \/ ItemWeightArg(item).k = "bad"

\* if weight > 0: holdings.append({... "weight": round(weight, 2)})
ApiKeeps(item) == Positive(ItemWeightArg(item))

ApiHolding(item) ==
  [ticker |-> Strip(ItemTicker(item)), name |-> Strip(ItemName(item)),
   weight |-> Round2(ItemWeightArg(item))]

\* the loop over raw[:top_n]; stops at the first item that raises
RECURSIVE ApiItems(_)
ApiItems(items) ==
  IF items = <<>> THEN [raised |-> FALSE, hs |-> <<>>]
  ELSE IF ItemRaises(Head(items)) THEN [raised |-> TRUE, hs |-> <<>>]
  ELSE LET rest == ApiItems(Tail(items))
       IN  IF rest.raised THEN rest
           ELSE IF ApiKeeps(Head(items))
                THEN [raised |-> FALSE, hs |-> <<ApiHolding(Head(items))>> \o rest.hs]
                ELSE rest

\* Results of a chain: kind = "none" (None), "list" (val = the holdings),
\* "raise" (an exception left the function); tried = the strategies attempted.
Res(kind, val, tried) == [kind |-> kind, val |-> val, tried |-> tried]

\* A scraped cell: its text s and what float() makes of it once "," and "%"
\* are replaced (w = Bad when float() raises ValueError).

\* len(cells) >= 3, float() succeeds, and not weight <= 0
RowKeeps(cells) ==
  /\ Len(cells) >= 3
  /\ cells[Len(cells)].w.k # "bad"
  /\ ~(Round2(cells[Len(cells)].w).k = "num" /\ Round2(cells[Len(cells)].w).v <= 0)

RowHolding(cells) ==
  [ticker |-> cells[3].s, name |-> cells[2].s, weight |-> Round2(cells[Len(cells)].w)]

RECURSIVE RowsHoldings(_)
RowsHoldings(rows) ==
  IF rows = <<>> THEN <<>>
  ELSE (IF RowKeeps(Head(rows)) THEN <<RowHolding(Head(rows))>> ELSE <<>>)
       \o RowsHoldings(Tail(rows))

NumSelectors == 5

\* the loop over the selector candidates from candidate k on
RECURSIVE SelectorsFrom(_, _, _)
SelectorsFrom(page, k, top_n) ==
  IF k > NumSelectors THEN <<>>
  ELSE LET holdings == RowsHoldings(Take(page.sel[k], top_n))
       IN  IF holdings # <<>> THEN holdings ELSE SelectorsFrom(page, k + 1, top_n)

fetch_holdings_html(page, top_n) ==
  IF page.status = "fail" THEN Res("none", <<>>, <<"html">>)
  ELSE LET holdings == SelectorsFrom(page, 1, top_n)
       IN  IF holdings # <<>> THEN Res("list", holdings, <<"html">>)
           ELSE Res("none", <<>>, <<"html">>)

\* the chain continues with a later strategy: its attempts follow ours
Then(tried, res) == [res EXCEPT !.tried = tried \o res.tried]

fetch_holdings_api(resp, page, top_n) ==
  IF resp.status = "fail" THEN Res("none", <<>>, <<"api">>)
  ELSE IF resp.shape # "map" THEN Res("raise", <<>>, <<"api">>)
  ELSE LET raw == RawHoldings(resp)
       IN  IF ~TruthyV(raw) THEN Res("none", <<>>, <<"api">>)
           ELSE IF raw.t # "list" THEN Res("raise", <<>>, <<"api">>)
           ELSE LET r == ApiItems(Take(raw.items, top_n))
                IN  IF r.raised THEN Res("raise", <<>>, <<"api">>)
                    ELSE IF r.hs # <<>> THEN Res("list", r.hs, <<"api">>)
                    ELSE Then(<<"api">>, fetch_holdings_html(page, top_n))

\* ---- inputs of the holdings-chain check
MaxItems == 2

MaxRows == 2

Item(ticker, symbol, name, description, weight, percentage) ==
  [shape |-> "map", ticker |-> ticker, symbol |-> symbol, isin |-> NoText,
   name |-> name, description |-> description,
   weight |-> weight, percentage |-> percentage]

WItem(w) == Item(Txt(<<Tk("NVDA")>>), NoText, Txt(<<Tk("Nvidia")>>), NoText, w, None)

\* a payload element that is no mapping (a string, a number)
NonMapItem == [WItem(None) EXCEPT !.shape = "nonmap"]

ItemChoices ==
  { WItem(F(7514)),
    Item(NoText, Txt(<<SP, Tk("AAPL")>>), NoText, Txt(<<Tk("Apple"), SP>>), None, F(7500)),
    WItem(F(-1000)), WItem(F(0)), WItem(F(4)), WItem(Bad), WItem(NaN),
    NonMapItem }

SeqsUpTo(S, n) == UNION {[1..m -> S] : m \in 0..n}

\* lists around the top-N cut: weights 19.0, 18.0, ... and a non-mapping tail
LongItems(n) ==
  [i \in 1..n |-> IF i <= TOP_N THEN WItem(F(20000 - 1000 * i)) ELSE NonMapItem]

\* the weights 7.514, 7.5, -1.0, 0
ExampleItems == <<WItem(F(7514)), WItem(F(7500)), WItem(F(-1000)), WItem(F(0))>>

ItemLists ==
  SeqsUpTo(ItemChoices, MaxItems) \cup {ExampleItems}
    \cup {LongItems(n) : n \in (TOP_N - 1)..(TOP_N + 1)}

NoPerf == [key \in {"performance", "returns", "historicPerformance", "totalReturn"} |-> Absent]

Payload(top, hold, extra) ==
  [status |-> "ok", shape |-> "map", topHoldings |-> top, holdings |-> hold,
   extra |-> extra, perf |-> NoPerf]

FailedResp == [Payload(Absent, Absent, Absent) EXCEPT !.status = "fail"]

NonMapResp == [Payload(Absent, Absent, Absent) EXCEPT !.shape = "nonmap"]

SmallVals ==
  {Absent, OtherVal, ListVal(<<WItem(F(7514))>>), ListVal(<<WItem(F(0))>>),
   ListVal(<<Item(NoText, NoText, NoText, NoText, None, F(7500))>>)}

HoldingsResponses ==
  {FailedResp, NonMapResp}
    \cup {Payload(ListVal(l), Absent, Absent) : l \in ItemLists}
    \cup {Payload(t, h, e) :
            t \in {Absent, OtherVal, ListVal(<<>>), ListVal(<<WItem(F(0))>>)},
            h \in SmallVals, e \in SmallVals}

Cell(s, w) == [s |-> s, w |-> w]

WRow(w) ==
  <<Cell(<<Tk("1")>>, F(1000)), Cell(<<Tk("Apple")>>, Bad), Cell(<<Tk("AAPL")>>, Bad), Cell(<<Tk("w")>>, w)>>

RowChoices ==
  { WRow(F(7514)), WRow(F(-1000)), WRow(F(0)), WRow(F(4)), WRow(Bad), WRow(NaN),
    <<Cell(<<Tk("1")>>, F(1000)), Cell(<<Tk("Apple")>>, Bad), Cell(<<Tk("w")>>, F(7500))>>,
    <<Cell(<<Tk("Apple")>>, Bad), Cell(<<Tk("w")>>, F(7500))>> }

LongRows(n) == [i \in 1..n |-> WRow(F(20000 - 1000 * i))]

RowLists ==
  SeqsUpTo(RowChoices, MaxRows) \cup {LongRows(n) : n \in (TOP_N - 1)..(TOP_N + 1)}

Page(k, rows, k2, rows2) ==
  [status |-> "ok",
   sel |-> [j \in 1..NumSelectors |->
              IF j = k THEN rows ELSE IF j = k2 THEN rows2 ELSE <<>>]]

FailedPage == [Page(1, <<>>, 1, <<>>) EXCEPT !.status = "fail"]

SmallPages ==
  {FailedPage, Page(1, <<>>, 1, <<>>), Page(2, <<WRow(F(7514))>>, 2, <<>>)}

HoldingsPages ==
  {FailedPage}
    \cup {Page(k, rows, k2, rows2) :
            k \in {1, 4}, rows \in RowLists, k2 \in {2, 5},
            rows2 \in {<<>>, <<WRow(F(7500))>>}}

\* responses on which the API strategy runs to its end and keeps no holding
FallThroughResponses ==
  {Payload(ListVal(<<WItem(F(0))>>), Absent, Absent),
   Payload(Absent, ListVal(<<WItem(F(-1000)), WItem(NaN)>>), Absent)}

InitHoldings ==
  /\ pc = "start"
  /\ inp \in [chain : {"holdings"}, api : HoldingsResponses, page : SmallPages]
              \cup [chain : {"holdings"}, api : FallThroughResponses, page : HoldingsPages]
  /\ out = Res("none", <<>>, <<>>)
  /\ MainIdle

CallFetchHoldings ==
  /\ pc = "start"
  /\ inp.chain = "holdings"
  /\ out' = fetch_holdings_api(inp.api, inp.page, TOP_N)
  /\ pc' = "done"
  /\ UNCHANGED <<inp, mainVars>>

\* ---------------------------------------------------------------- ETF-returns chain

\* A returns mapping is a function from the canonical periods to scalars,
\* None standing for a period that has no entry (or holds None).
EmptyRets == [p \in PeriodSet |-> None]

\* truthiness of a returns dict built by the fetch functions
TruthyR(rets) == \E p \in PeriodSet : rets[p] # None

\* "no mapping": what dict.get returns for an unknown label
NoPeriod == "-"

\* the map without its upper-case keys
API_LABEL_MAP_LowerOnly(label) ==
  CASE label = "1m" -> "1M"
    [] label = "3m" -> "3M"
    [] label = "6m" -> "6M"
    [] label = "1y" -> "1Y"
    [] label = "3y" -> "3Y"
    [] label = "5y" -> "5Y"
    [] OTHER -> NoPeriod

\* LABEL_MAP of fetch_etf_returns_api
API_LABEL_MAP(label) ==
  CASE label \in {"1m", "1M"} -> "1M"
    [] label \in {"3m", "3M"} -> "3M"
    [] label \in {"6m", "6M"} -> "6M"
    [] label \in {"1y", "1Y"} -> "1Y"
    [] label \in {"3y", "3Y"} -> "3Y"
    [] label \in {"5y", "5Y"} -> "5Y"
    [] OTHER -> NoPeriod

\* LABEL_MAP of fetch_etf_returns_html
HTML_LABEL_MAP(label) ==
  CASE label \in {"1 month", "1m"} -> "1M"
    [] label \in {"3 months", "3m"} -> "3M"
    [] label \in {"6 months", "6m"} -> "6M"
    [] label \in {"1 year", "1y"} -> "1Y"
    [] label \in {"3 years", "3y"} -> "3Y"
    [] label \in {"5 years", "5y"} -> "5Y"
    [] OTHER -> NoPeriod

\* str.lower() on the header labels of the model's vocabulary
Lower(label) ==
  CASE label = "1M" -> "1m"
    [] label = "3M" -> "3m"
    [] label = "6M" -> "6m"
    [] label = "1Y" -> "1y"
    [] label = "3Y" -> "3y"
    [] label = "5Y" -> "5y"
    [] label = "1 Month" -> "1 month"
    [] label = "3 Months" -> "3 months"
    [] label = "6 Months" -> "6 months"
    [] label \in {"1 Year", "1 YEAR"} -> "1 year"
    [] label = "3 Years" -> "3 years"
    [] label = "5 Years" -> "5 years"
    [] label = "YTD" -> "ytd"
    [] OTHER -> label

\* round(float(v) * 100, 1) for v in units of 1e-4, and round(float(raw), 1)
\* for raw in hundredths of a percent: tenths of a percent
Round1(x) == IF x.k = "num" THEN F(RoundDiv(x.v, 10)) ELSE x

\* for k, v in perf.items(): entries [k, v] in payload order
RECURSIVE DictReturns(_, _)
DictReturns(entries, returns) ==
  IF entries = <<>> THEN returns
  ELSE LET e      == Head(entries)
           mapped == API_LABEL_MAP(e.k)
       IN  DictReturns(Tail(entries),
             IF mapped # NoPeriod /\ e.v.k # "none" /\ e.v.k # "bad"
             THEN [returns EXCEPT ![mapped] = Round1(e.v)]
             ELSE returns)

\* item.get("period") or item.get("label") or ""
RecordLabel(item) ==
  IF item.period # "" THEN item.period ELSE item.label

\* item.get("value") or item.get("return") or 0
RecordValueArg(item) ==
  IF TruthyS(item.value) THEN item.value
  ELSE IF TruthyS(item.ret) THEN item.ret
  ELSE F(0)

\* for item in perf: records [shape, period, label, value, ret]; item.get on
\* a non-mapping raises AttributeError, outside the try
RECURSIVE ListReturns(_, _)
ListReturns(items, returns) ==
  IF items = <<>> THEN [raised |-> FALSE, returns |-> returns]
  ELSE LET item == Head(items)
       IN  IF item.shape # "map" THEN [raised |-> TRUE, returns |-> returns]
           ELSE LET period == API_LABEL_MAP(RecordLabel(item))
                    arg    == RecordValueArg(item)
                IN  ListReturns(Tail(items),
                      IF period # NoPeriod /\ arg.k # "bad"
                      THEN [returns EXCEPT ![period] = Round1(arg)]
                      ELSE returns)

RAW_KEYS == <<"performance", "returns", "historicPerformance", "totalReturn">>

\* the loop over the candidate keys from key number n on; perf values are
\* [t |-> "dict" | "list" | "absent", items]
RECURSIVE KeysFrom(_, _)
KeysFrom(data, n) ==
  IF n > Len(RAW_KEYS) THEN [raised |-> FALSE, returns |-> EmptyRets]
  ELSE LET perf == data.perf[RAW_KEYS[n]]
       IN  IF perf.t = "dict"
           THEN LET returns == DictReturns(perf.items, EmptyRets)
                IN  IF TruthyR(returns) THEN [raised |-> FALSE, returns |-> returns]
                    ELSE KeysFrom(data, n + 1)
           ELSE IF perf.t = "list"
           THEN LET r == ListReturns(perf.items, EmptyRets)
                IN  IF r.raised \/ TruthyR(r.returns) THEN r
                    ELSE KeysFrom(data, n + 1)
           ELSE KeysFrom(data, n + 1)

fetch_etf_returns_yf(hist) ==
  IF hist.status = "fail" \/ hist.close = <<>> THEN Res("map", EmptyRets, <<"yf">>)
  ELSE Res("map", [p \in PeriodSet |-> pct_change(hist.close, PERIOD_DAYS[p])], <<"yf">>)

\* for i, h in enumerate(headers): the cell under a recognized header
RECURSIVE RowReturns(_, _, _, _)
RowReturns(headers, cells, i, returns) ==
  IF i > Len(headers) THEN returns
  ELSE LET mapped == HTML_LABEL_MAP(Lower(headers[i]))
       IN  RowReturns(headers, cells, i + 1,
             IF mapped # NoPeriod /\ i <= Len(cells) /\ cells[i].k # "bad"
             THEN [returns EXCEPT ![mapped] = Round1(cells[i])]
             ELSE returns)

\* for row in table.find_all("tr"): rows without td cells are skipped
RECURSIVE TableReturns(_, _, _)
TableReturns(headers, rows, returns) ==
  IF rows = <<>> THEN returns
  ELSE TableReturns(headers, Tail(rows),
         IF Head(rows) = <<>> THEN returns
         ELSE RowReturns(headers, Head(rows), 1, returns))

\* for table in soup.find_all("table"): tables [headers, rows]
RECURSIVE TablesReturns(_, _)
TablesReturns(tables, returns) ==
  IF tables = <<>> THEN returns
  ELSE TablesReturns(Tail(tables),
         TableReturns(Head(tables).headers, Head(tables).rows, returns))

fetch_etf_returns_html(page, hist) ==
  IF page.status = "fail" THEN Res("map", EmptyRets, <<"html">>)
  ELSE LET returns == TablesReturns(page.tables, EmptyRets)
       IN  IF TruthyR(returns) THEN Res("map", returns, <<"html">>)
           ELSE Then(<<"html">>, fetch_etf_returns_yf(hist))

\* the API strategy going on to the page scrape although it has returns
fetch_etf_returns_api_AlwaysScrape(resp, page, hist) ==
  IF resp.status = "fail" THEN Res("map", EmptyRets, <<"api">>)
  ELSE IF resp.shape # "map" THEN Res("raise", EmptyRets, <<"api">>)
  ELSE LET r == KeysFrom(resp, 1)
       IN  IF r.raised THEN Res("raise", EmptyRets, <<"api">>)
           ELSE Then(<<"api">>, fetch_etf_returns_html(page, hist))

fetch_etf_returns_api(resp, page, hist) ==
  IF resp.status = "fail" THEN Res("map", EmptyRets, <<"api">>)
  ELSE IF resp.shape # "map" THEN Res("raise", EmptyRets, <<"api">>)
  ELSE LET r == KeysFrom(resp, 1)
       IN  IF r.raised THEN Res("raise", EmptyRets, <<"api">>)
           ELSE IF TruthyR(r.returns) THEN Res("map", r.returns, <<"api">>)
           ELSE Then(<<"api">>, fetch_etf_returns_html(page, hist))

\* ---------------------------------------------------------------- fetch_stock_returns

\* A Python dict in insertion order: a sequence of [key, val]; assigning to a
\* key that is present keeps its position.
DictKeys(dict) == {dict[k].key : k \in 1..Len(dict)}

\* dict.get(key, default)
DictGet(dict, key, default) ==
  IF key \in DictKeys(dict)
  THEN dict[CHOOSE k \in 1..Len(dict) : dict[k].key = key].val
  ELSE default

DictSet(dict, key, val) ==
  IF key \in DictKeys(dict)
  THEN [k \in 1..Len(dict) |-> IF dict[k].key = key THEN [key |-> key, val |-> val] ELSE dict[k]]
  ELSE Append(dict, [key |-> key, val |-> val])

\* t.replace("BRK_B", "BRK-B")
YfTicker(ticker) == IF ticker = "BRK_B" THEN "BRK-B" ELSE ticker

\* The price service.  raw is the batch download: raw.kind is "fail"
\* (yf.download raised, raw = None), "multi" (columns are a MultiIndex) or
\* "flat"; raw.frame[yf_ticker] is the symbol's Close column and
\* quotes[yf_ticker] the symbol's own download, each [ok, series] with
\* ok = FALSE when the lookup or the request raises and series the column
\* after dropna().
TickerSeries(raw, quotes, n, yf_ticker) ==
  IF raw.kind = "multi" THEN raw.frame[yf_ticker]
  ELSE IF raw.kind = "flat" /\ n = 1 THEN raw.frame[yf_ticker]
  ELSE quotes[yf_ticker]

\* the try body and its except clause for one ticker
TickerRets(q) ==
  IF ~q.ok \/ q.series = <<>> THEN [p \in PeriodSet |-> None]
  ELSE [p \in PeriodSet |-> pct_change(q.series, PERIOD_DAYS[p])]

\* the loop with an exception of one ticker ending it
RECURSIVE StockLoop_Abort(_, _, _, _, _)
StockLoop_Abort(tickers, k, raw, quotes, results) ==
  IF k > Len(tickers) THEN results
  ELSE LET q == TickerSeries(raw, quotes, Len(tickers), YfTicker(tickers[k]))
       IN  IF ~q.ok \/ q.series = <<>> THEN results
           ELSE StockLoop_Abort(tickers, k + 1, raw, quotes,
                                DictSet(results, tickers[k], TickerRets(q)))

\* for ticker, yf_ticker in zip(tickers, yf_tickers), from position k on
RECURSIVE StockLoop(_, _, _, _, _)
StockLoop(tickers, k, raw, quotes, results) ==
  IF k > Len(tickers) THEN results
  ELSE StockLoop(tickers, k + 1, raw, quotes,
         DictSet(results, tickers[k],
                 TickerRets(TickerSeries(raw, quotes, Len(tickers), YfTicker(tickers[k])))))

fetch_stock_returns(tickers, raw, quotes) == StockLoop(tickers, 1, raw, quotes, <<>>)

\* ---- inputs of the stock-returns check
MaxTickers == 3

TickerChoices == {"NVDA", "BRK-B", "BRK_B"}

YfTickers == {YfTicker(t) : t \in TickerChoices}

Quote(series) == [ok |-> TRUE, series |-> series]

NoQuote == [ok |-> FALSE, series |-> <<>>]

QuoteChoices ==
  {NoQuote, Quote(<<>>), Quote(ExampleSeries),
   Quote(<<[d |-> -31, v |-> 100], [d |-> 0, v |-> 150]>>)}

Quotes == [YfTickers -> QuoteChoices]

RawChoices == [kind : {"fail", "multi", "flat"}, frame : Quotes]

InitStock ==
  /\ pc = "start"
  /\ inp \in [tickers : SeqsUpTo(TickerChoices, MaxTickers), raw : RawChoices,
              quotes : Quotes]
  /\ out = <<>>
  /\ MainIdle

CallFetchStockReturns ==
  /\ pc = "start"
  /\ out' = fetch_stock_returns(inp.tickers, inp.raw, inp.quotes)
  /\ pc' = "done"
  /\ UNCHANGED <<inp, mainVars>>

NextStock == CallFetchStockReturns

SpecStock == InitStock /\ [][NextStock]_vars

\* ---------------------------------------------------------------- JS formatters

\* the opening markers "const RAW_HOLDINGS = {", "const ETF_RETURNS = {",
\* "const HOLDING_RETURNS = {" and the closing marker "};"
OH == Tk("const RAW_HOLDINGS = {")

OE == Tk("const ETF_RETURNS = {")

OS == Tk("const HOLDING_RETURNS = {")

CL == Tk("};")

\* the characters '"' and '\'
DQ == Tk("quote")

BS == Tk("backslash")

\* the concatenation of the sequences ss[lo], ..., ss[hi]
RECURSIVE FlattenRange(_, _, _)
FlattenRange(ss, lo, hi) ==
  IF lo > hi THEN <<>>
  ELSE IF lo = hi THEN ss[lo]
  ELSE LET mid == (lo + hi) \div 2
       IN  FlattenRange(ss, lo, mid) \o FlattenRange(ss, mid + 1, hi)

\* "".join over a sequence of sequences
Flatten(ss) == FlattenRange(ss, 1, Len(ss))

\* text.replace('"', '\\"')
EscapeQuotes(text) ==
  Flatten([k \in 1..Len(text) |-> IF text[k] = DQ THEN <<BS, DQ>> ELSE <<text[k]>>])

\* an f-string number field: the format and the value shown
Fmt(format, x) ==
  IF x.k = "num" THEN [t |-> format, v |-> x.v] ELSE Tk("nan")

\* one "{ ticker:..., name:..., weight:... }," line
HoldingLine(h) ==
  <<Tk("{ ticker:"), DQ>> \o EscapeQuotes(h.ticker) \o <<DQ, Tk(", name:"), DQ>>
    \o EscapeQuotes(h.name) \o <<DQ, Tk(", weight:"), Fmt("5.2f", h.weight), Tk(" },")>>

\* the loop running over the mapping's own keys, in insertion order
js_holdings_DictOrder(holdings_by_etf_) ==
  <<OH>>
    \o Flatten([i \in 1..Len(holdings_by_etf_) |->
         LET holdings == holdings_by_etf_[i].val
         IN  <<Tk(holdings_by_etf_[i].key), Tk(": [")>>
               \o Flatten([k \in 1..Len(holdings) |-> HoldingLine(holdings[k])])
               \o <<Tk("],")>>])
    \o <<CL>>

js_holdings(holdings_by_etf_) ==
  <<OH>>
    \o Flatten([e \in 1..Len(ETFS) |->
         LET holdings == DictGet(holdings_by_etf_, ETFS[e], <<>>)
         IN  <<Tk(ETFS[e]), Tk(": [")>>
               \o Flatten([k \in 1..Len(holdings) |-> HoldingLine(holdings[k])])
               \o <<Tk("],")>>])
    \o <<CL>>

\* the part left out when the value is missing
PeriodPart_OmitMissing(p, rets, null, format) ==
  IF rets[p].k = "none" THEN <<>> ELSE <<Tk(p), Fmt(format, rets[p])>>

\* the part for one period: "P": value, null when rets.get(p) is None
PeriodPart(p, rets, null, format) ==
  <<Tk(p), IF rets[p].k = "none" THEN Tk(null) ELSE Fmt(format, rets[p])>>

\* the loop leaving out an instrument that has no entry in the mapping
js_etf_returns_SkipAbsent(returns_by_etf) ==
  <<OE>>
    \o Flatten([e \in 1..Len(ETFS) |->
         IF ETFS[e] \notin DictKeys(returns_by_etf) THEN <<>>
         ELSE LET rets == DictGet(returns_by_etf, ETFS[e], EmptyRets)
              IN  <<Tk(ETFS[e]), Tk(": {")>>
                    \o Flatten([k \in 1..Len(PERIODS) |-> PeriodPart(PERIODS[k], rets, "  null ", "5.1f")])
                    \o <<Tk("},")>>])
    \o <<CL>>

js_etf_returns(returns_by_etf) ==
  <<OE>>
    \o Flatten([e \in 1..Len(ETFS) |->
         LET rets == DictGet(returns_by_etf, ETFS[e], EmptyRets)
         IN  <<Tk(ETFS[e]), Tk(": {")>>
               \o Flatten([k \in 1..Len(PERIODS) |-> PeriodPart(PERIODS[k], rets, "  null ", "5.1f")])
               \o <<Tk("},")>>])
    \o <<CL>>

\* "." in ticker or not ticker.replace("_", "").isalnum()
NeedsQuotes(ticker) == ticker \in {"BRK-B", "000660.KS"}

js_holding_returns(returns_by_ticker) ==
  <<OS>>
    \o Flatten([i \in 1..Len(returns_by_ticker) |->
         LET ticker == returns_by_ticker[i].key
             rets   == returns_by_ticker[i].val
         IN  (IF NeedsQuotes(ticker) THEN <<DQ, Tk(ticker), DQ>> ELSE <<Tk(ticker)>>)
               \o <<Tk(":  {")>>
               \o Flatten([k \in 1..Len(PERIODS) |-> PeriodPart(PERIODS[k], rets, "   null", "7.1f")])
               \o <<Tk("},")>>])
    \o <<CL>>

\* ---------------------------------------------------------------- HTML patcher

\* characters after which a backslash in a replacement template is an error
\* (ASCII letters that are no known escape, and digits: no group exists)
IsLetterOrDigit(tok) == tok.t \in {"x", "1"}

\* the number of consecutive backslashes that end right before position k
BackslashesBefore(repl, k) ==
  LET stops == {m \in 1..(k - 1) : repl[m] # BS}
      last  == IF stops = {} THEN 0 ELSE CHOOSE m \in stops : \A m2 \in stops : m2 <= m
  IN  k - 1 - last

\* position k holds a backslash that starts an escape
StartsEscape(repl, k) == repl[k] = BS /\ BackslashesBefore(repl, k) % 2 = 0

\* re's processing of the replacement string: "\\" becomes "\", a backslash
\* before another non-alphanumeric character is kept, a backslash before a
\* letter or digit of the model's alphabet (or at the end) raises re.error
Template(repl) ==
  [ok |-> \A k \in 1..Len(repl) :
            StartsEscape(repl, k) => (k < Len(repl) /\ ~IsLetterOrDigit(repl[k + 1])),
   s  |-> Flatten([k \in 1..Len(repl) |->
            IF StartsEscape(repl, k) /\ k < Len(repl) /\ repl[k + 1] = BS
            THEN <<>> ELSE <<repl[k]>>])]

\* least position of token tok in doc at or after position from, 0 if none
IndexFrom(doc, tok, from) ==
  LET hits == {k \in from..Len(doc) : doc[k] = tok}
  IN  IF hits = {} THEN 0 ELSE CHOOSE k \in hits : \A k2 \in hits : k <= k2

\* the greedy match: from the opening marker to the last closing marker
RECURSIVE SubRegion_Greedy(_, _, _)
SubRegion_Greedy(doc, open, text) ==
  LET i    == IndexFrom(doc, open, 1)
      ends == {k \in (i + 1)..Len(doc) : doc[k] = CL}
      j    == IF i = 0 \/ ends = {} THEN 0 ELSE CHOOSE k \in ends : \A k2 \in ends : k2 <= k
  IN  IF j = 0 THEN doc
      ELSE SubSeq(doc, 1, i - 1) \o text \o SubSeq(doc, j + 1, Len(doc))

\* re.sub(open + r".*?\};", text, doc, flags=re.DOTALL): every match, left to
\* right, from an opening marker to the first closing marker after it
RECURSIVE SubRegion(_, _, _)
SubRegion(doc, open, text) ==
  LET i == IndexFrom(doc, open, 1)
      j == IF i = 0 THEN 0 ELSE IndexFrom(doc, CL, i + 1)
  IN  IF j = 0 THEN doc
      ELSE SubSeq(doc, 1, i - 1) \o text
             \o SubRegion(SubSeq(doc, j + 1, Len(doc)), open, text)

\* the labels of the two date annotations; a date of the form \w+ \d+, \d{4}
\* is a token with t = "date" and v its day number
EMBEDDED == Tk("EMBEDDED DATA -- compiled ")

DATA_AS_OF == Tk("Data as of ")

DOT == Tk(".")

\* re.sub(r"EMBEDDED DATA -- compiled \w+ \d+, \d{4}", ...): the date after
\* each label is replaced
SubCompiled(doc, date_str) ==
  [k \in 1..Len(doc) |->
     IF k >= 2 /\ doc[k - 1] = EMBEDDED /\ doc[k].t = "date" THEN date_str ELSE doc[k]]

\* re.sub(r"Data as of \w+ \d+, \d{4}\.", ...)
SubAsOf(doc, date_str) ==
  [k \in 1..Len(doc) |->
     IF k >= 2 /\ k < Len(doc) /\ doc[k - 1] = DATA_AS_OF /\ doc[k].t = "date"
        /\ doc[k + 1] = DOT
     THEN date_str ELSE doc[k]]

\* An optional dict argument: [has, d]; None is has = FALSE.
NoDict == [has |-> FALSE, d |-> <<>>]

SomeDict(d) == [has |-> TRUE, d |-> d]

\* "x or None"
OrNone(d) == IF d = <<>> THEN NoDict ELSE SomeDict(d)

\* truthiness of the argument: None and {} are falsy
TruthyD(arg) == arg.has /\ arg.d # <<>>

\* the step without the "if new_x" test
PatchBlock_Always(res, arg, open, text) ==
  IF ~res.ok THEN res
  ELSE IF ~Template(text).ok THEN [ok |-> FALSE, doc |-> res.doc]
  ELSE [ok |-> TRUE, doc |-> SubRegion(res.doc, open, Template(text).s)]

\* one "if new_x: html = re.sub(...)" step; [ok, doc], ok = FALSE when re.sub raises
PatchBlock(res, arg, open, text) ==
  IF ~res.ok \/ ~TruthyD(arg) THEN res
  ELSE IF ~Template(text).ok THEN [ok |-> FALSE, doc |-> res.doc]
  ELSE [ok |-> TRUE, doc |-> SubRegion(res.doc, open, Template(text).s)]

\* the dates rewritten only when some block was replaced
patch_html_DatesWhenChanged(html_, new_holdings, new_etf_rets, new_stock_rets, date_str) ==
  LET r1 == PatchBlock([ok |-> TRUE, doc |-> html_], new_holdings, OH,
                       js_holdings(new_holdings.d))
      r2 == PatchBlock(r1, new_etf_rets, OE, js_etf_returns(new_etf_rets.d))
      r3 == PatchBlock(r2, new_stock_rets, OS, js_holding_returns(new_stock_rets.d))
  IN  IF ~r3.ok THEN r3
      ELSE IF ~(TruthyD(new_holdings) \/ TruthyD(new_etf_rets) \/ TruthyD(new_stock_rets))
      THEN r3
      ELSE [ok |-> TRUE, doc |-> SubAsOf(SubCompiled(r3.doc, date_str), date_str)]

patch_html(html_, new_holdings, new_etf_rets, new_stock_rets, date_str) ==
  LET r1 == PatchBlock([ok |-> TRUE, doc |-> html_], new_holdings, OH,
                       js_holdings(new_holdings.d))
      r2 == PatchBlock(r1, new_etf_rets, OE, js_etf_returns(new_etf_rets.d))
      r3 == PatchBlock(r2, new_stock_rets, OS, js_holding_returns(new_stock_rets.d))
  IN  IF ~r3.ok THEN r3
      ELSE [ok |-> TRUE, doc |-> SubAsOf(SubCompiled(r3.doc, date_str), date_str)]

\* the region of a block in a document: the first match of its pattern
Region(doc, open) ==
  LET i == IndexFrom(doc, open, 1)
      j == IF i = 0 THEN 0 ELSE IndexFrom(doc, CL, i + 1)
  IN  IF j = 0 THEN <<>> ELSE SubSeq(doc, i, j)

\* ---- inputs of the patcher check
MaxTextLen == 2

\* characters of a ticker or name: a letter, the text "};", a double quote, a
\* backslash, a digit
TextChars == {Tk("x"), CL, DQ, BS, Tk("1")}

TextChoices == SeqsUpTo(TextChars, MaxTextLen)

Date(n) == [t |-> "date", v |-> n]

Holding(ticker, name, weight) == [ticker |-> ticker, name |-> name, weight |-> weight]

KV(key, val) == [key |-> key, val |-> val]

OneYear(v) == [EmptyRets EXCEPT !["1Y"] = F(v)]

HoldingsArgs ==
  {NoDict, SomeDict(<<>>)}
    \cup {SomeDict(<<KV("XUTC", <<Holding(<<Tk("x")>>, n, F(751))>>)>>) : n \in TextChoices}
    \cup {SomeDict(<<KV("VWCE", <<Holding(<<Tk("x"), CL>>, <<Tk("x")>>, F(751)),
                                   Holding(<<Tk("1")>>, <<>>, F(0))>>),
                     KV("XUTC", <<Holding(<<Tk("x")>>, <<Tk("x"), Tk("x")>>, NaN)>>)>>)}

EtfArgs ==
  {NoDict, SomeDict(<<>>), SomeDict(<<KV("SP20", OneYear(333))>>)}

StockArgs ==
  {NoDict, SomeDict(<<>>),
   SomeDict(<<KV("NVDA", OneYear(-56)), KV("BRK-B", EmptyRets)>>)}

OldRegion(open) == <<open, Tk("old"), Tk("old"), CL>>

Orders ==
  {<<OH, OE, OS>>, <<OH, OS, OE>>, <<OE, OH, OS>>, <<OE, OS, OH>>, <<OS, OH, OE>>,
   <<OS, OE, OH>>}

\* a document with the three regions, other text (which may hold a "};" of
\* its own) and the date annotations outside the regions
Doc(order, g0, g1, g3) ==
  g0 \o OldRegion(order[1]) \o g1 \o OldRegion(order[2]) \o <<Tk("x")>>
     \o OldRegion(order[3]) \o g3

DocChoices ==
  {Doc(order, g0, g1, g3) :
     order \in Orders,
     g0 \in {<<EMBEDDED, Date(1)>>, <<Tk("x")>>},
     g1 \in {<<>>, <<Tk("x"), CL>>},
     g3 \in {<<DATA_AS_OF, Date(1), DOT, Tk("x")>>, <<>>}}

DateChoices == {Date(2)}

InitPatch ==
  /\ pc = "start"
  /\ inp \in [doc : DocChoices, holdings : HoldingsArgs, etf : EtfArgs,
              stock : StockArgs, date : DateChoices]
  /\ out = <<>>
  /\ MainIdle

\* patch_html on the input document
PatchOnce ==
  /\ pc = "start"
  /\ out' = <<patch_html(inp.doc, inp.holdings, inp.etf, inp.stock, inp.date)>>
  /\ pc' = "once"
  /\ UNCHANGED <<inp, mainVars>>

\* patch_html on its own output, with the same blocks and date
PatchAgain ==
  /\ pc = "once"
  /\ out[1].ok
  /\ out' = Append(out, patch_html(out[1].doc, inp.holdings, inp.etf, inp.stock, inp.date))
  /\ pc' = "twice"
  /\ UNCHANGED <<inp, mainVars>>

NextPatch == PatchOnce \/ PatchAgain

SpecPatch == InitPatch /\ [][NextPatch]_vars

\* ---------------------------------------------------------------- serializer check

\* ---- inputs: two mappings that hold the same entries, inserted in the
\* order a and in the order b
MaxSerialEntries == 2

MixedRets == [EmptyRets EXCEPT !["1M"] = F(-56), !["5Y"] = F(1000)]

SerialHoldingLists ==
  {<<>>, <<Holding(<<Tk("x")>>, <<Tk("x"), DQ>>, F(751))>>,
   <<Holding(<<Tk("1")>>, <<>>, F(750)), Holding(<<Tk("x")>>, <<Tk("x")>>, F(4))>>}

SerialEntries(kind) ==
  IF kind = "holdings" THEN {KV(e, l) : e \in {"XUTC", "EQQQ", "VWCE"}, l \in SerialHoldingLists}
  ELSE IF kind = "etf" THEN {KV(e, r) : e \in {"XUTC", "EQQQ", "VWCE"},
                                        r \in {OneYear(333), MixedRets, [p \in PeriodSet |-> F(5)]}}
  ELSE {KV(t, r) : t \in {"NVDA", "BRK_B", "000660.KS"},
                   r \in {EmptyRets, OneYear(-56), MixedRets}}

\* the dicts of a kind: no key twice
SerialDicts(kind) ==
  {d \in SeqsUpTo(SerialEntries(kind), MaxSerialEntries) :
     \A i, j \in 1..Len(d) : d[i].key = d[j].key => i = j}

\* the same entries in another insertion order
Reorderings(d) ==
  {[i \in 1..Len(d) |-> d[f[i]]] :
     f \in {g \in [1..Len(d) -> 1..Len(d)] : \A i, j \in 1..Len(d) : g[i] = g[j] => i = j}}

Serialize(kind, d) ==
  IF kind = "holdings" THEN js_holdings(d)
  ELSE IF kind = "etf" THEN js_etf_returns(d)
  ELSE js_holding_returns(d)

InitSerial ==
  /\ pc = "start"
  /\ \E kind \in {"holdings", "etf", "stock"} :
       \E a \in SerialDicts(kind) :
         \E b \in Reorderings(a) : inp = [kind |-> kind, a |-> a, b |-> b]
  /\ out = <<>>
  /\ MainIdle

\* the serializer of the kind on both mappings
CallSerialize ==
  /\ pc = "start"
  /\ out' = <<Serialize(inp.kind, inp.a), Serialize(inp.kind, inp.b)>>
  /\ pc' = "done"
  /\ UNCHANGED <<inp, mainVars>>

NextSerial == CallSerialize

SpecSerial == InitSerial /\ [][NextSerial]_vars

\* ---- inputs of the returns-chain check
MaxEntries == 2

DictVal(entries) == [t |-> "dict", items |-> entries]

Entry(k, v) == [k |-> k, v |-> v]

EntryChoices ==
  {Entry(k, v) : k \in {"1y", "1Y", "1 year", "ytd"}, v \in {F(1234), F(-56), None, Bad}}

Rec(period, label, value, ret) ==
  [shape |-> "map", period |-> period, label |-> label, value |-> value, ret |-> ret]

NonMapRec == [Rec("", "", None, None) EXCEPT !.shape = "nonmap"]

RecChoices ==
  { Rec("1y", "", F(1234), None), Rec("", "5Y", None, F(-56)),
    Rec("1y", "", None, None), Rec("3m", "", Bad, None),
    Rec("10y", "", F(1234), None), NonMapRec }

PerfVals ==
  {Absent, OtherVal}
    \cup {DictVal(d) : d \in SeqsUpTo(EntryChoices, MaxEntries)}
    \cup {ListVal(l) : l \in SeqsUpTo(RecChoices, MaxEntries)}

SmallPerfVals ==
  {Absent, DictVal(<<Entry("ytd", F(1234))>>), DictVal(<<Entry("3m", F(-56))>>),
   ListVal(<<Rec("6M", "", F(1234), None)>>)}

RPayload(perf) == [Payload(Absent, Absent, Absent) EXCEPT !.perf = perf]

Perf(a, b, c, d) ==
  [key \in DOMAIN NoPerf |->
     CASE key = "performance" -> a
       [] key = "returns" -> b
       [] key = "historicPerformance" -> c
       [] key = "totalReturn" -> d]

ReturnsResponses ==
  {FailedResp, NonMapResp}
    \cup {RPayload(Perf(a, Absent, Absent, Absent)) : a \in PerfVals}
    \cup {RPayload(Perf(a, b, Absent, d)) :
            a \in SmallPerfVals, b \in SmallPerfVals, d \in SmallPerfVals}

Table(headers, rows) == [headers |-> headers, rows |-> rows]

RPage(tables) == [status |-> "ok", tables |-> tables]

FailedRPage == [RPage(<<>>) EXCEPT !.status = "fail"]

ReturnsPages ==
  { FailedRPage, RPage(<<>>),
    RPage(<<Table(<<"", "1 Month", "1Y", "YTD">>, <<<<>>, <<Bad, F(123), F(1234), F(7)>>>>)>>),
    RPage(<<Table(<<"", "1 Year", "5 Years">>, <<<<Bad, Bad>>, <<Bad, F(-56)>>>>)>>),
    RPage(<<Table(<<"Name", "Weight">>, <<<<Bad, F(751)>>>>),
            Table(<<"1 Year">>, <<<<Bad>>>>)>>),
    RPage(<<Table(<<"1M", "3 years">>, <<<<F(1234), F(7)>>, <<F(-56)>>>>)>>) }

Hist(close) == [status |-> "ok", close |-> close]

FailedHist == [Hist(<<>>) EXCEPT !.status = "fail"]

HistChoices ==
  { FailedHist, Hist(<<>>), Hist(ExampleSeries), Hist(<<[d |-> 0, v |-> 0]>>),
    Hist(<<[d |-> -31, v |-> 100], [d |-> 0, v |-> 150]>>) }

InitReturns ==
  /\ pc = "start"
  /\ inp \in [chain : {"returns"}, api : ReturnsResponses, page : ReturnsPages,
              hist : HistChoices]
  /\ out = Res("none", <<>>, <<>>)
  /\ MainIdle

CallFetchReturns ==
  /\ pc = "start"
  /\ inp.chain = "returns"
  /\ out' = fetch_etf_returns_api(inp.api, inp.page, inp.hist)
  /\ pc' = "done"
  /\ UNCHANGED <<inp, mainVars>>

\* ---- the two label maps on single labels
LabelChoices ==
  {"1m", "1M", "3m", "3M", "6m", "6M", "1y", "1Y", "3y", "3Y", "5y", "5Y",
   "1 month", "1 Month", "3 months", "3 Months", "6 months", "6 Months",
   "1 year", "1 Year", "1 YEAR", "3 years", "3 Years", "5 years", "5 Years",
   "ytd", "YTD", "10y", "1 yr", "year", ""}

InitLabels ==
  /\ pc = "start"
  /\ inp \in [chain : {"label"}, site : {"api", "html"}, label : LabelChoices]
  /\ out = Res("none", <<>>, <<>>)
  /\ MainIdle

\* mapped = LABEL_MAP.get(k) on a key or record label of the API payload,
\* LABEL_MAP.get(h) on the lower-cased header of a scraped table
CallLabelMap ==
  /\ pc = "start"
  /\ inp.chain = "label"
  /\ out' = Res("label",
              IF inp.site = "api" THEN API_LABEL_MAP(inp.label)
              ELSE HTML_LABEL_MAP(Lower(inp.label)),
              <<inp.site>>)
  /\ pc' = "done"
  /\ UNCHANGED <<inp, mainVars>>

InitChains == InitHoldings \/ InitReturns \/ InitLabels

NextChains == CallFetchHoldings \/ CallFetchReturns \/ CallLabelMap

\* each fetch chain called once on the responses of its sources
SpecChains == InitChains /\ [][NextChains]_vars

\* ---------------------------------------------------------------- main

\* TODAY_STR: strftime("%b %d, %Y") of the day of the run
TODAY_STR == Date(2)

ALL_STOCK_TICKERS ==
  <<"NVDA", "AAPL", "MSFT", "AVGO", "MU", "AMD", "PLTR", "CSCO",
    "LRCX", "IBM", "ACN", "AMAT", "TXN", "CRM", "INTU", "META",
    "GOOGL", "GOOG", "VZ", "CMCSA", "NFLX", "T", "EA", "TTWO",
    "DIS", "WBD", "LYV", "CHTR", "OMC", "NWSA", "AMZN", "TSLA",
    "COST", "PEP", "TSM", "JPM", "LLY", "ORCL", "SAP", "BRK-B",
    "V", "XOM", "UNH", "WMT", "HD", "QCOM", "000660.KS">>

\* the tickers of the list that the model of main follows: a plain one and
\* the renamed one
ModelledTickers == {"NVDA", "BRK-B"}

STOCK_TICKERS == SelectSeq(ALL_STOCK_TICKERS, LAMBDA t : t \in ModelledTickers)

\* dict.pop(key) of a key that is present
DictPop(dict, key) == SelectSeq(dict, LAMBDA e : e.key # key)

\* if "BRK-B" in stock_rets: stock_rets["BRK_B"] = stock_rets.pop("BRK-B")
RenameBrk(rets) ==
  IF "BRK-B" \in DictKeys(rets)
  THEN DictSet(DictPop(rets, "BRK-B"), "BRK_B", DictGet(rets, "BRK-B", EmptyRets))
  ELSE rets

\* the file on disk: [exists, text]
File(text) == [exists |-> TRUE, text |-> text]

NoFile == [exists |-> FALSE, text |-> <<>>]

\* ---- source responses a run of main may meet
MainDocs ==
  {Doc(<<OH, OE, OS>>, <<EMBEDDED, Date(1)>>, <<Tk("x"), CL>>, <<DATA_AS_OF, Date(1), DOT, Tk("x")>>),
   Doc(<<OS, OH, OE>>, <<Tk("x")>>, <<>>, <<>>)}

MainQuotes ==
  [{YfTicker(STOCK_TICKERS[k]) : k \in 1..Len(STOCK_TICKERS)} -> {NoQuote, Quote(ExampleSeries)}]

MainRaws ==
  {[kind |-> "fail", frame |-> [t \in DOMAIN q |-> NoQuote]] : q \in MainQuotes}
    \cup {[kind |-> "multi", frame |-> q] : q \in {q2 \in MainQuotes : q2["NVDA"].ok}}

\* the API record and the table row of the same holding
MainItem == Item(Txt(<<Tk("x")>>), NoText, Txt(<<Tk("x"), Tk("x")>>), NoText, F(7514), None)

MainRow ==
  <<Cell(<<Tk("1")>>, F(1000)), Cell(<<Tk("x"), Tk("x")>>, Bad), Cell(<<Tk("x")>>, Bad),
    Cell(<<Tk("7,51%")>>, F(7514))>>

MainHoldingsResponses ==
  {FailedResp, NonMapResp, Payload(ListVal(<<MainItem>>), Absent, Absent),
   Payload(ListVal(<<WItem(F(0))>>), Absent, Absent)}

MainHoldingsPages == {FailedPage, Page(2, <<MainRow>>, 2, <<>>)}

\* the same returns (50.0 for every period) as the API, the profile page and
\* the price history give them
MainPerf == [k \in 1..Len(PERIODS) |-> Entry(PERIODS[k], F(5000))]

MainTable == Table(<<"1m", "3m", "6m", "1y", "3y", "5y">>, <<[k \in 1..Len(PERIODS) |-> F(5000)]>>)

MainReturnsResponses ==
  {FailedResp, NonMapResp,
   RPayload(Perf(DictVal(MainPerf), Absent, Absent, Absent)),
   RPayload(Perf(Absent, Absent, Absent, Absent))}

MainReturnsPages == {FailedRPage, RPage(<<>>), RPage(<<MainTable>>)}

MainHists == {FailedHist, Hist(<<[d |-> -31, v |-> 100], [d |-> 0, v |-> 150]>>)}

\* time.sleep(1.5), in tenths of a second
CRAWL_DELAY == 15

\* the requests a chain sent to justetf.com: its API and profile-page
\* attempts (the price history comes from another service)
SiteRequests(tried) == Len(SelectSeq(tried, LAMBDA s : s # "yf"))

\* the gaps after n further requests sent one after the other, the first of
\* them since_ after the previous request
GapsAfter(gaps_, since_, n) ==
  gaps_ \cup (IF n >= 1 /\ since_ >= 0 THEN {since_} ELSE {})
        \cup (IF n >= 2 THEN {0} ELSE {})

InitMain ==
  /\ pc = "start"
  /\ disk \in {NoFile} \cup {File(d) : d \in MainDocs}
  /\ html = <<>>
  /\ writes = 0
  /\ stock_rets = <<>>
  /\ holdings_by_etf = <<>>
  /\ etf_rets_by_etf = <<>>
  /\ idx = 0
  /\ since_req = -1
  /\ gaps = {}
  /\ inp = <<>>
  /\ out = <<>>

\* if not HTML_PATH.exists(): sys.exit(...); html = HTML_PATH.read_text()
ReadDocument ==
  /\ pc = "start"
  /\ IF disk.exists
     THEN html' = disk.text /\ pc' = "stock"
     ELSE html' = html /\ pc' = "fatal"
  /\ UNCHANGED <<inp, out, disk, writes, stock_rets, holdings_by_etf, etf_rets_by_etf, idx,
                 since_req, gaps>>

\* step 1: stock_rets = fetch_stock_returns(STOCK_TICKERS) and the BRK-B rename
FetchStock ==
  /\ pc = "stock"
  /\ \E raw \in MainRaws, quotes \in MainQuotes :
       stock_rets' = RenameBrk(fetch_stock_returns(STOCK_TICKERS, raw, quotes))
  /\ pc' = "session"
  /\ UNCHANGED <<inp, out, html, disk, writes, holdings_by_etf, etf_rets_by_etf, idx,
                 since_req, gaps>>

\* session = justetf_session(): the warm-up request, its failure swallowed
OpenSession ==
  /\ pc = "session"
  /\ pc' = "holdings"
  /\ idx' = 1
  /\ gaps' = GapsAfter(gaps, since_req, 1)
  /\ since_req' = 0
  /\ UNCHANGED <<inp, out, html, disk, writes, stock_rets, holdings_by_etf, etf_rets_by_etf>>

\* h = fetch_holdings_api(session, etf, isin); if h: holdings_by_etf[etf] = h; sleep
FetchHoldings ==
  /\ pc = "holdings"
  /\ \E api \in MainHoldingsResponses, page \in MainHoldingsPages :
       LET h == fetch_holdings_api(api, page, TOP_N)
       IN  /\ gaps' = GapsAfter(gaps, since_req, SiteRequests(h.tried))
           /\ IF h.kind = "raise"
              THEN pc' = "aborted" /\ holdings_by_etf' = holdings_by_etf /\ since_req' = 0
              ELSE
                /\ since_req' = CRAWL_DELAY
                /\ pc' = "returns"
                /\ holdings_by_etf' =
                     IF h.kind = "list" /\ h.val # <<>>
                     THEN DictSet(holdings_by_etf, ETFS[idx], h.val)
                     ELSE holdings_by_etf
  /\ UNCHANGED <<inp, out, html, disk, writes, stock_rets, etf_rets_by_etf, idx>>

\* r = fetch_etf_returns_api(session, etf, isin); if r: etf_rets_by_etf[etf] = r;
\* sleep; next instrument
FetchReturns ==
  /\ pc = "returns"
  /\ \E api \in MainReturnsResponses, page \in MainReturnsPages, hist \in MainHists :
       LET r == fetch_etf_returns_api(api, page, hist)
       IN  /\ gaps' = GapsAfter(gaps, since_req, SiteRequests(r.tried))
           /\ IF r.kind = "raise"
              THEN pc' = "aborted" /\ etf_rets_by_etf' = etf_rets_by_etf /\ idx' = idx
                   /\ since_req' = 0
              ELSE
                /\ since_req' = CRAWL_DELAY
                /\ etf_rets_by_etf' =
                     IF TruthyR(r.val) THEN DictSet(etf_rets_by_etf, ETFS[idx], r.val)
                     ELSE etf_rets_by_etf
                /\ idx' = idx + 1
                /\ pc' = IF idx = Len(ETFS) THEN "patch" ELSE "holdings"
  /\ UNCHANGED <<inp, out, html, disk, writes, stock_rets, holdings_by_etf>>

\* step 3: new_html = patch_html(...); HTML_PATH.write_text(new_html)
PatchAndWrite ==
  /\ pc = "patch"
  /\ LET r == patch_html(html, OrNone(holdings_by_etf), OrNone(etf_rets_by_etf),
                         OrNone(stock_rets), TODAY_STR)
     IN  IF r.ok
         THEN disk' = File(r.doc) /\ writes' = writes + 1 /\ pc' = "done"
         ELSE disk' = disk /\ writes' = writes /\ pc' = "aborted"
  /\ UNCHANGED <<inp, out, html, stock_rets, holdings_by_etf, etf_rets_by_etf, idx,
                 since_req, gaps>>

NextMain ==
  \/ ReadDocument
  \/ FetchStock
  \/ OpenSession
  \/ FetchHoldings
  \/ FetchReturns
  \/ PatchAndWrite

SpecMain == InitMain /\ [][NextMain]_vars

\* ---------------------------------------------------------------- claims

Range(s) == {s[k] : k \in 1..Len(s)}

\* C1: whenever the holdings chain reports missing, the page-scrape strategy
\* was attempted first: a failed API request, a payload without a holdings
\* list and a payload whose holdings are all filtered out each fall through
\* to fetch_holdings_html.
C1_ApiFallsThroughToHtml ==
  (pc = "done" /\ inp.chain = "holdings" /\ out.kind = "none") =>
    "html" \in Range(out.tried)

\* C2: the ETF-returns chain returns the empty mapping only after the
\* structured API, the page scrape and the price-history computation have
\* each been attempted.
C2_EmptyOnlyAfterAllThree ==
  (pc = "done" /\ inp.chain = "returns" /\ out.kind = "map" /\ ~TruthyR(out.val)) =>
    out.tried = <<"api", "html", "yf">>

\* C3: fetch_holdings_api and fetch_etf_returns_api return a value for every
\* outcome of every source; no exception reaches main.
C3_ChainsNeverRaise ==
  pc = "done" => out.kind # "raise"

\* the source candidates a returned list was built from
SourceWeights ==
  IF out.tried = <<"api">>
  THEN [k \in 1..Len(RawHoldings(inp.api).items) |->
          ItemWeightArg(RawHoldings(inp.api).items[k])]
  ELSE LET k == CHOOSE j \in 1..NumSelectors :
                  /\ \E r \in Range(Take(inp.page.sel[j], TOP_N)) : RowKeeps(r)
                  /\ \A i \in 1..(j - 1) :
                       \A r \in Range(Take(inp.page.sel[i], TOP_N)) : ~RowKeeps(r)
           rows == SelectSeq(inp.page.sel[k],
                             LAMBDA r : Len(r) >= 3 /\ r[Len(r)].w.k # "bad")
       IN  [i \in 1..Len(rows) |-> rows[i][Len(rows[i])].w]

\* C10: every returned holdings list has at most TOP_N entries, each stored
\* weight is strictly positive and is the source weight rounded to 2 decimals,
\* in source order, candidates with weight <= 0 being dropped; the weights
\* 7.514, 7.5, -1.0, 0 yield 7.51, 7.5.
C10_HoldingsInvariant ==
  (pc = "done" /\ inp.chain = "holdings" /\ out.kind = "list") =>
    /\ Len(out.val) <= TOP_N
    /\ \A k \in 1..Len(out.val) : out.val[k].weight.k = "num" /\ out.val[k].weight.v > 0
    /\ LET kept == SelectSeq(Take(SourceWeights, TOP_N), LAMBDA w : ~(w.k = "num" /\ w.v <= 0))
       IN  [k \in 1..Len(out.val) |-> out.val[k].weight]
             = [k \in 1..Len(kept) |-> Round2(kept[k])]
    /\ inp.api = Payload(ListVal(ExampleItems), Absent, Absent) =>
         [k \in 1..Len(out.val) |-> out.val[k].weight] = <<F(751), F(750)>>

\* C8: fetch_stock_returns returns exactly one entry per requested ticker,
\* each with the six canonical periods; a ticker whose series cannot be
\* obtained or is empty has all six missing, and every entry is determined by
\* its own ticker's series alone, on the batch path and on the fallback path.
C8_PerTickerIsolation ==
  pc = "done" =>
    /\ DictKeys(out) = Range(inp.tickers)
    /\ Len(out) = Cardinality(Range(inp.tickers))
    /\ \A k \in 1..Len(out) :
         LET batched == inp.raw.kind = "multi"
                          \/ (inp.raw.kind = "flat" /\ Len(inp.tickers) = 1)
             q == IF batched THEN inp.raw.frame[YfTicker(out[k].key)]
                  ELSE inp.quotes[YfTicker(out[k].key)]
         IN  /\ DOMAIN out[k].val = PeriodSet
             /\ (~q.ok \/ q.series = <<>>) => \A p \in PeriodSet : out[k].val[p] = None
             /\ (q.ok /\ q.series # <<>>) =>
                  \A p \in PeriodSet : out[k].val[p] = pct_change(q.series, PERIOD_DAYS[p])

\* a failing ticker is followed by one that has numbers, on the batch path
C8_Witness ==
  /\ pc = "done"
  /\ inp.raw.kind = "multi"
  /\ Len(out) >= 2
  /\ ~inp.raw.frame[YfTicker(out[1].key)].ok
  /\ inp.quotes[YfTicker(out[1].key)].ok
  /\ out[2].val["1Y"].k = "num"

\* the document the n-th application of patch_html was given
PatchInput(n) == IF n = 1 THEN inp.doc ELSE out[n - 1].doc

\* C5: patch_html is a partial update: a block whose argument is None or
\* empty keeps the text of its region byte-identical, whatever is supplied
\* for the other two blocks.
C5_AbsentBlockUntouched ==
  pc \in {"once", "twice"} =>
    \A n \in 1..Len(out) :
      out[n].ok =>
        /\ ~TruthyD(inp.holdings) => Region(out[n].doc, OH) = Region(PatchInput(n), OH)
        /\ ~TruthyD(inp.etf) => Region(out[n].doc, OE) = Region(PatchInput(n), OE)
        /\ ~TruthyD(inp.stock) => Region(out[n].doc, OS) = Region(PatchInput(n), OS)

\* holdings and stock returns are replaced while the ETF block is empty
C5_Witness ==
  /\ pc = "once"
  /\ out[1].ok
  /\ TruthyD(inp.holdings) /\ TruthyD(inp.stock)
  /\ inp.etf = SomeDict(<<>>)
  /\ Region(out[1].doc, OH) # Region(inp.doc, OH)
  /\ Region(out[1].doc, OS) # Region(inp.doc, OS)
  /\ Region(out[1].doc, OE) = OldRegion(OE)

\* C6: patch_html is idempotent for fixed inputs, also when a holding's
\* ticker or name contains "};": a second application with the same blocks
\* and date returns the output of the first.
C6_Idempotent ==
  pc = "twice" => (out[2].ok /\ out[2].doc = out[1].doc)

\* no data of a kind was obtained in the run
NoHoldingsObtained == holdings_by_etf = <<>>

NoEtfReturnsObtained == etf_rets_by_etf = <<>>

NoStockReturnsObtained ==
  \A k \in 1..Len(stock_rets) : \A p \in PeriodSet : stock_rets[k].val[p] = None

\* C4: for each of the three data kinds, if a whole run of main obtained no
\* data of that kind, the kind's region in the document written at the end is
\* byte-identical to the region in the document read at the start.
C4_UnobtainedKindUntouched ==
  pc = "done" =>
    /\ NoHoldingsObtained => Region(disk.text, OH) = Region(html, OH)
    /\ NoEtfReturnsObtained => Region(disk.text, OE) = Region(html, OE)
    /\ NoStockReturnsObtained => Region(disk.text, OS) = Region(html, OS)

\* C7: if the target document exists when main starts, no outcome of the
\* sources aborts the run before the write, and the run that reaches its end
\* has written the patched document exactly once.
C7_RunAlwaysWrites ==
  /\ pc # "aborted"
  /\ pc = "done" => writes = 1
  /\ pc # "done" => writes = 0

\* the positions of token tok in text, ascending
Positions(text, tok) == {k \in 1..Len(text) : text[k] = tok}

NthPosition(text, tok, n) ==
  CHOOSE k \in Positions(text, tok) :
    Cardinality({j \in Positions(text, tok) : j < k}) = n - 1

\* C11 (as stated): each of the three serializers gives the same block for
\* two mappings that hold the same entries inserted in different orders.
C11_OrderIndependent ==
  pc = "done" => out[1] = out[2]

\* C11 (amended): js_holdings and js_etf_returns give the same block for two
\* mappings holding the same entries, whatever the insertion orders;
\* js_holding_returns emits its tickers in the insertion order of the mapping
\* it is given, so its two blocks agree exactly when the insertion orders do.
C11_EtfSerializersOrderIndependent ==
  pc = "done" =>
    /\ inp.kind \in {"holdings", "etf"} => out[1] = out[2]
    /\ inp.kind = "stock" =>
         /\ (out[1] = out[2]) <=> (inp.a = inp.b)
         /\ SelectSeq(out[1], LAMBDA tok : tok.t \in DictKeys(inp.a))
              = [i \in 1..Len(inp.a) |-> Tk(inp.a[i].key)]
         /\ SelectSeq(out[2], LAMBDA tok : tok.t \in DictKeys(inp.b))
              = [i \in 1..Len(inp.b) |-> Tk(inp.b[i].key)]

\* two instruments inserted in the two possible orders
C11_Witness ==
  /\ pc = "done"
  /\ inp.kind = "holdings"
  /\ Len(inp.a) = 2
  /\ inp.a # inp.b
  /\ inp.a[1].val # <<>>
  /\ out[1] = out[2]

\* the entry that starts at the n-th occurrence of the opening token open has
\* the six period fields in canonical order, null exactly for missing values
SixFields(text, open, n, rets, null, format) ==
  LET base == NthPosition(text, open, n)
  IN  /\ base + 13 <= Len(text)
      /\ text[base + 13] = Tk("},")
      /\ \A k \in 1..Len(PERIODS) :
           /\ text[base + 2 * k - 1] = Tk(PERIODS[k])
           /\ (rets[PERIODS[k]] = None) <=> (text[base + 2 * k] = Tk(null))
           /\ rets[PERIODS[k]] # None =>
                text[base + 2 * k] = [t |-> format, v |-> rets[PERIODS[k]].v]

\* C12: the block of js_etf_returns has one entry for each of the six
\* instruments and the block of js_holding_returns one entry per ticker of its
\* input; every entry has the six period fields in the order 1M, 3M, 6M, 1Y,
\* 3Y, 5Y, a missing value being the field null and never left out.
C12_ConstantShape ==
  (pc = "done" /\ inp.kind \in {"etf", "stock"}) =>
    \A n \in 1..2 :
      LET d    == IF n = 1 THEN inp.a ELSE inp.b
          text == out[n]
      IN  IF inp.kind = "etf"
          THEN /\ Cardinality(Positions(text, Tk(": {"))) = Len(ETFS)
               /\ Len(text) = 2 + 15 * Len(ETFS)
               /\ \A e \in 1..Len(ETFS) :
                    /\ text[NthPosition(text, Tk(": {"), e) - 1] = Tk(ETFS[e])
                    /\ SixFields(text, Tk(": {"), e, DictGet(d, ETFS[e], EmptyRets),
                                 "  null ", "5.1f")
          ELSE /\ Cardinality(Positions(text, Tk(":  {"))) = Len(d)
               /\ \A i \in 1..Len(d) :
                    /\ LET before == NthPosition(text, Tk(":  {"), i) - 1
                       IN  \/ text[before] = Tk(d[i].key)
                           \/ text[before] = DQ /\ text[before - 1] = Tk(d[i].key)
                    /\ SixFields(text, Tk(":  {"), i, d[i].val, "   null", "7.1f")

\* an instrument without data next to one with numbers and a missing period
C12_Witness ==
  /\ pc = "done"
  /\ inp.kind = "etf"
  /\ Len(inp.a) = 1
  /\ inp.a[1].val = MixedRets
  /\ Len(out[1]) = 2 + 15 * Len(ETFS)

\* C13: between any two consecutive requests sent to justetf.com in a run
\* (the warm-up request of the session, the API requests, the profile-page
\* requests) the crawl delay elapses, also when a chain falls through from
\* one strategy to the next.
C13_DelayBetweenRequests ==
  \A g \in gaps : g >= CRAWL_DELAY

\* ---------------------------------------------------------------- reading a region back

\* The page's script reads each region as a JavaScript object literal.  A
\* reading is [ok, d, next]: ok = FALSE when the text is no such literal, d
\* the value read, next the position after it.
NoParse == [ok |-> FALSE, d |-> <<>>, next |-> 0]

Parsed(d, next) == [ok |-> TRUE, d |-> d, next |-> next]

\* a string literal from the position after its opening quote: \" is a
\* quote, \\ a backslash, a backslash before "};" is dropped; \x without hex
\* digits is a syntax error and \1 a control character
RECURSIVE ParseString(_, _, _)
ParseString(text, i, acc) ==
  IF i > Len(text) THEN NoParse
  ELSE IF text[i] = DQ THEN Parsed(acc, i + 1)
  ELSE IF text[i] = BS
       THEN IF i + 1 <= Len(text) /\ text[i + 1] \in {DQ, BS, CL}
            THEN ParseString(text, i + 2, Append(acc, text[i + 1]))
            ELSE NoParse
       ELSE ParseString(text, i + 1, Append(acc, text[i]))

\* a number: a formatted-number token reads as its value, "null" as None;
\* nan is an undefined name
ParseValue(tok, nulls) ==
  IF tok.t \in {"5.2f", "5.1f", "7.1f"} THEN Parsed(F(tok.v), 0)
  ELSE IF tok \in nulls THEN Parsed(None, 0)
  ELSE NoParse

\* the token at position i, a blank past the end
At(text, i) == IF i >= 1 /\ i <= Len(text) THEN text[i] ELSE SP

\* { ticker:"...", name:"...", weight:... },
ParseHolding(text, i) ==
  IF At(text, i) # Tk("{ ticker:") \/ At(text, i + 1) # DQ THEN NoParse
  ELSE LET t == ParseString(text, i + 2, <<>>)
       IN  IF ~t.ok \/ At(text, t.next) # Tk(", name:") \/ At(text, t.next + 1) # DQ
           THEN NoParse
           ELSE LET n == ParseString(text, t.next + 2, <<>>)
                IN  IF ~n.ok \/ At(text, n.next) # Tk(", weight:")
                       \/ At(text, n.next + 2) # Tk(" },")
                    THEN NoParse
                    ELSE LET w == ParseValue(At(text, n.next + 1), {})
                         IN  IF ~w.ok THEN NoParse
                             ELSE Parsed([ticker |-> t.d, name |-> n.d, weight |-> w.d],
                                         n.next + 3)

\* the elements of an array up to its closing "],"
RECURSIVE ParseHoldingList(_, _, _)
ParseHoldingList(text, i, acc) ==
  IF At(text, i) = Tk("],") THEN Parsed(acc, i + 1)
  ELSE LET h == ParseHolding(text, i)
       IN  IF ~h.ok THEN NoParse ELSE ParseHoldingList(text, h.next, Append(acc, h.d))

\* KEY: [ ... ], entries up to the closing "};"
RECURSIVE ParseHoldingEntries(_, _, _)
ParseHoldingEntries(text, i, acc) ==
  IF At(text, i) = CL THEN (IF i = Len(text) THEN Parsed(acc, i + 1) ELSE NoParse)
  ELSE IF At(text, i + 1) # Tk(": [") THEN NoParse
  ELSE LET l == ParseHoldingList(text, i + 2, <<>>)
       IN  IF ~l.ok THEN NoParse
           ELSE ParseHoldingEntries(text, l.next, Append(acc, [key |-> text[i].t, val |-> l.d]))

ParseHoldings(region) ==
  IF At(region, 1) # OH THEN NoParse ELSE ParseHoldingEntries(region, 2, <<>>)

\* the six "P": value fields from position i on, in any order of the periods
RECURSIVE ParseFields(_, _, _, _)
ParseFields(text, i, nulls, rets) ==
  IF At(text, i) = Tk("},") THEN Parsed(rets, i + 1)
  ELSE IF At(text, i).t \notin PeriodSet THEN NoParse
  ELSE LET v == ParseValue(At(text, i + 1), nulls)
       IN  IF ~v.ok THEN NoParse
           ELSE ParseFields(text, i + 2, nulls, [rets EXCEPT ![text[i].t] = v.d])

\* KEY: { ... }, entries (the key bare or quoted) up to the closing "};"
RECURSIVE ParseReturnEntries(_, _, _, _, _)
ParseReturnEntries(text, i, brace, nulls, acc) ==
  IF At(text, i) = CL THEN (IF i = Len(text) THEN Parsed(acc, i + 1) ELSE NoParse)
  ELSE LET quoted == At(text, i) = DQ /\ At(text, i + 2) = DQ
           key    == IF quoted THEN At(text, i + 1) ELSE At(text, i)
           j      == IF quoted THEN i + 3 ELSE i + 1
       IN  IF At(text, j) # brace THEN NoParse
           ELSE LET f == ParseFields(text, j + 1, nulls, EmptyRets)
                IN  IF ~f.ok THEN NoParse
                    ELSE ParseReturnEntries(text, f.next, brace, nulls,
                                            Append(acc, [key |-> key.t, val |-> f.d]))

ParseReturns(region, open, brace) ==
  IF At(region, 1) # open THEN NoParse
  ELSE ParseReturnEntries(region, 2, brace, {Tk("  null "), Tk("   null")}, <<>>)

\* a snapshot section as the page sees it: every instrument present, one
\* without data holding the empty list or six missing values
AllInstruments(d, default) == [e \in 1..Len(ETFS) |-> [key |-> ETFS[e], val |-> DictGet(d, ETFS[e], default)]]

\* C14: round trip.  For each supplied snapshot section, the region of the
\* patched document reads back as a structure equal to the section: the same
\* instruments or tickers, the same holdings in the same order with the same
\* ticker, name and weight, the same period values and missing entries.
C14_RoundTrip ==
  (pc = "once" /\ out[1].ok) =>
    /\ TruthyD(inp.holdings) =>
         LET r == ParseHoldings(Region(out[1].doc, OH))
         IN  r.ok /\ r.d = AllInstruments(inp.holdings.d, <<>>)
    /\ TruthyD(inp.etf) =>
         LET r == ParseReturns(Region(out[1].doc, OE), OE, Tk(": {"))
         IN  r.ok /\ r.d = AllInstruments(inp.etf.d, EmptyRets)
    /\ TruthyD(inp.stock) =>
         LET r == ParseReturns(Region(out[1].doc, OS), OS, Tk(":  {"))
         IN  r.ok /\ r.d = inp.stock.d

\* the spellings of a period: short lower case, short upper case, long
ShortLower(p) ==
  CASE p = "1M" -> "1m" [] p = "3M" -> "3m" [] p = "6M" -> "6m"
    [] p = "1Y" -> "1y" [] p = "3Y" -> "3y" [] p = "5Y" -> "5y"

LongSpellings(p) ==
  CASE p = "1M" -> {"1 month", "1 Month"}
    [] p = "3M" -> {"3 months", "3 Months"}
    [] p = "6M" -> {"6 months", "6 Months"}
    [] p = "1Y" -> {"1 year", "1 Year", "1 YEAR"}
    [] p = "3Y" -> {"3 years", "3 Years"}
    [] p = "5Y" -> {"5 years", "5 Years"}

Spellings(p) == {ShortLower(p), p} \cup LongSpellings(p)

\* C15 (as stated): wherever a label is normalized (API payload, scraped
\* header) every recognized spelling of a period, "1y", "1 year" and "1Y"
\* among them, maps to that canonical period, and a label that is no
\* recognized spelling maps to no period, without an error.
C15_LabelsTotalEverywhere ==
  (pc = "done" /\ inp.chain = "label") =>
    /\ out.kind = "label"
    /\ \A p \in PeriodSet : inp.label \in Spellings(p) => out.val = p
    /\ (\A p \in PeriodSet : inp.label \notin Spellings(p)) => out.val = NoPeriod

\* C15 (amended): the API map recognizes the short spellings in lower or
\* upper case only; the scraped-header map, applied to the lower-cased header,
\* recognizes the short and the long spellings in any letter case.  On each
\* site a spelling recognized there maps to its one canonical period and any
\* other label maps to no period, without an error.
C15_LabelsTotalPerSite ==
  (pc = "done" /\ inp.chain = "label") =>
    LET recognized(p) == IF inp.site = "api" THEN {ShortLower(p), p} ELSE Spellings(p)
    IN  /\ out.kind = "label"
        /\ \A p \in PeriodSet : inp.label \in recognized(p) => out.val = p
        /\ (\A p \in PeriodSet : inp.label \notin recognized(p)) => out.val = NoPeriod

\* an upper-case short spelling on the API and a mixed-case long one on a header
C15_Witness ==
  /\ pc = "done"
  /\ inp.chain = "label"
  /\ \/ inp.site = "api" /\ inp.label = "1Y" /\ out.val = "1Y"
     \/ inp.site = "html" /\ inp.label = "1 Year" /\ out.val = "1Y"

\* what each strategy yields by itself on the responses of the state (the
\* empty list or mapping when it fails or finds nothing)
ApiOwnHoldings ==
  IF inp.api.status = "ok" /\ inp.api.shape = "map" /\ RawHoldings(inp.api).t = "list"
  THEN ApiItems(Take(RawHoldings(inp.api).items, TOP_N)).hs
  ELSE <<>>

HtmlOwnHoldings ==
  IF inp.page.status = "ok" THEN SelectorsFrom(inp.page, 1, TOP_N) ELSE <<>>

ApiOwnReturns ==
  IF inp.api.status = "ok" /\ inp.api.shape = "map" THEN KeysFrom(inp.api, 1).returns
  ELSE EmptyRets

HtmlOwnReturns ==
  IF inp.page.status = "ok" THEN TablesReturns(inp.page.tables, EmptyRets) ELSE EmptyRets

IsPrefix(s, t) == Len(s) <= Len(t) /\ s = SubSeq(t, 1, Len(s))

\* C16: in both chains the strategies are attempted in their fixed order
\* (holdings: API, page scrape; ETF returns: API, page scrape, price history),
\* each at most once, and once a strategy has returned a non-empty result no
\* later strategy is attempted and that result is the chain's result.
C16_FirstNonEmptyWins ==
  (pc = "done" /\ inp.chain \in {"holdings", "returns"}) =>
    /\ out.tried # <<>>
    /\ IsPrefix(out.tried, IF inp.chain = "holdings" THEN <<"api", "html">>
                           ELSE <<"api", "html", "yf">>)
    /\ (inp.chain = "holdings" /\ out.kind # "raise") =>
         /\ ApiOwnHoldings # <<>> => (out.tried = <<"api">> /\ out.val = ApiOwnHoldings)
         /\ (Len(out.tried) >= 2 /\ HtmlOwnHoldings # <<>>) => out.val = HtmlOwnHoldings
    /\ (inp.chain = "returns" /\ out.kind # "raise") =>
         /\ TruthyR(ApiOwnReturns) => (out.tried = <<"api">> /\ out.val = ApiOwnReturns)
         /\ (Len(out.tried) >= 2 /\ TruthyR(HtmlOwnReturns)) =>
              (out.tried = <<"api", "html">> /\ out.val = HtmlOwnReturns)
         /\ Len(out.tried) = 3 => out.val = fetch_etf_returns_yf(inp.hist).val

\* the page scrape wins after an empty API result; the price history, which
\* would have given numbers, is not asked
C16_Witness ==
  /\ pc = "done"
  /\ inp.chain = "returns"
  /\ out.tried = <<"api", "html">>
  /\ TruthyR(out.val)
  /\ TruthyR(fetch_etf_returns_yf(inp.hist).val)
  /\ out.val # fetch_etf_returns_yf(inp.hist).val

\* the payload holds a parseable number for period p: a mapping entry or a
\* record whose label is a spelling of p and whose value (or return) is a number
PayloadHasNumber(p) ==
  \E n \in 1..Len(RAW_KEYS) :
    LET perf == inp.api.perf[RAW_KEYS[n]]
    IN  \/ /\ perf.t = "dict"
           /\ \E e \in Range(perf.items) : API_LABEL_MAP(e.k) = p /\ e.v.k = "num"
        \/ /\ perf.t = "list"
           /\ \E item \in Range(perf.items) :
                /\ item.shape = "map"
                /\ API_LABEL_MAP(RecordLabel(item)) = p
                /\ (item.value.k = "num" \/ item.ret.k = "num")

\* C19: in the result of the structured-API returns strategy a period has a
\* number only if the payload supplied a parseable number for it; a period
\* whose entry or record has an absent, null or unparseable value stays
\* missing.
C19_NumberOnlyFromPayload ==
  (pc = "done" /\ inp.chain = "returns" /\ out.kind = "map" /\ out.tried = <<"api">>) =>
    \A p \in PeriodSet : out.val[p].k = "num" => PayloadHasNumber(p)

\* the places of the two annotation labels in a document
CompiledAt(doc) == {k \in 1..Len(doc) : doc[k] = EMBEDDED}

AsOfAt(doc) == {k \in 1..Len(doc) : doc[k] = DATA_AS_OF}

\* the text after the label has the form a call of patch_html looks for:
\* "\w+ \d+, \d{4}" after the header label, the same and a "." after the footer label
CompiledMatches(doc, k) == At(doc, k + 1).t = "date"

AsOfMatches(doc, k) == At(doc, k + 1).t = "date" /\ At(doc, k + 2) = DOT

HasBothAnnotations(doc) ==
  /\ CompiledAt(doc) # {} /\ \A k \in CompiledAt(doc) : CompiledMatches(doc, k)
  /\ AsOfAt(doc) # {} /\ \A k \in AsOfAt(doc) : AsOfMatches(doc, k)

\* C17: for a document containing the two "as of" annotations, every call of
\* patch_html that returns, whichever of the three blocks it is given (none
\* included), returns a document in which both annotations carry the supplied
\* date and still have the form a later call looks for.
C17_DatesAlwaysRewritten ==
  pc \in {"once", "twice"} =>
    \A n \in 1..Len(out) :
      (out[n].ok /\ HasBothAnnotations(PatchInput(n))) =>
        /\ HasBothAnnotations(out[n].doc)
        /\ Cardinality(CompiledAt(out[n].doc)) = Cardinality(CompiledAt(PatchInput(n)))
        /\ Cardinality(AsOfAt(out[n].doc)) = Cardinality(AsOfAt(PatchInput(n)))
        /\ \A k \in CompiledAt(out[n].doc) \cup AsOfAt(out[n].doc) :
             out[n].doc[k + 1] = inp.date

\* no block is supplied and both annotations change from the old date to the new
C17_Witness ==
  /\ pc = "once"
  /\ out[1].ok
  /\ ~TruthyD(inp.holdings) /\ ~TruthyD(inp.etf) /\ ~TruthyD(inp.stock)
  /\ HasBothAnnotations(inp.doc)
  /\ \A k \in CompiledAt(inp.doc) \cup AsOfAt(inp.doc) : inp.doc[k + 1] # inp.date
  /\ \A k \in CompiledAt(out[1].doc) \cup AsOfAt(out[1].doc) : out[1].doc[k + 1] = inp.date

\* the span of a block's region in a document: from its opening marker to the
\* first closing marker after it
RegionStart(doc, open) == IndexFrom(doc, open, 1)

RegionEnd(doc, open) == IndexFrom(doc, CL, RegionStart(doc, open) + 1)

Openers == {OH, OE, OS}

InsideRegion(doc, k) ==
  \E open \in Openers :
    RegionStart(doc, open) > 0 /\ RegionStart(doc, open) <= k /\ k <= RegionEnd(doc, open)

\* the block a call writes for a region: the supplied section as re.sub
\* inserts it, the old region when nothing is supplied
NewRegion(doc, open) ==
  LET arg  == IF open = OH THEN inp.holdings ELSE IF open = OE THEN inp.etf ELSE inp.stock
      text == IF open = OH THEN js_holdings(arg.d)
              ELSE IF open = OE THEN js_etf_returns(arg.d) ELSE js_holding_returns(arg.d)
  IN  IF TruthyD(arg) THEN Template(text).s ELSE Region(doc, open)

\* a token outside the regions, a date annotation carrying the new date
OutsideToken(doc, k) ==
  IF \/ At(doc, k - 1) = EMBEDDED /\ doc[k].t = "date"
     \/ At(doc, k - 1) = DATA_AS_OF /\ doc[k].t = "date" /\ At(doc, k + 1) = DOT
  THEN inp.date ELSE doc[k]

\* the document with each region exchanged in place and all other text kept
Exchanged(doc) ==
  LET span == [hs |-> RegionStart(doc, OH), he |-> RegionEnd(doc, OH),
               es |-> RegionStart(doc, OE), ee |-> RegionEnd(doc, OE),
               ss |-> RegionStart(doc, OS), se |-> RegionEnd(doc, OS)]
  IN  Flatten([k \in 1..Len(doc) |->
        IF k = span.hs THEN NewRegion(doc, OH)
        ELSE IF k = span.es THEN NewRegion(doc, OE)
        ELSE IF k = span.ss THEN NewRegion(doc, OS)
        ELSE IF \/ span.hs < k /\ k <= span.he
                \/ span.es < k /\ k <= span.ee
                \/ span.ss < k /\ k <= span.se
        THEN <<>>
        ELSE <<OutsideToken(doc, k)>>])

\* C20: for a document with exactly the three regions and the two date
\* annotations, patch_html changes nothing outside them: the returned
\* document is the given one with the regions of the supplied blocks
\* exchanged and the dates rewritten, all text before, between and after the
\* regions being kept, for every combination of supplied blocks.
C20_NothingOutsideChanged ==
  pc \in {"once", "twice"} =>
    \A n \in 1..Len(out) :
      out[n].ok => out[n].doc = Exchanged(PatchInput(n))

\* all three blocks are exchanged in a document with text, a stray "};" and
\* both annotations around the regions
C20_Witness ==
  /\ pc = "once"
  /\ out[1].ok
  /\ TruthyD(inp.holdings) /\ TruthyD(inp.etf) /\ TruthyD(inp.stock)
  /\ HasBothAnnotations(inp.doc)
  /\ \E k \in 1..Len(inp.doc) : inp.doc[k] = CL /\ ~InsideRegion(inp.doc, k)
  /\ out[1].doc # inp.doc

\* the places in a region where the entry KEY followed by brace starts
EntryAt(region, key, brace) ==
  {i \in 1..(Len(region) - 1) : region[i] = Tk(key) /\ region[i + 1] = brace}

\* a kind was obtained for some instruments and not for all
PartlyObtained(dict) == dict # <<>> /\ \E e \in 1..Len(ETFS) : ETFS[e] \notin DictKeys(dict)

\* C18: when a run obtained holdings (or ETF returns) for at least one
\* instrument but not for another, the written region of that kind has an
\* entry for each of the six instruments, the entry of an unobtained
\* instrument is empty (an empty list, or six null periods), and nothing of
\* the previous region is carried over.
C18_UnobtainedInstrumentEmptied ==
  pc = "done" =>
    /\ PartlyObtained(holdings_by_etf) =>
         LET region == Region(disk.text, OH)
         IN  /\ Tk("old") \notin Range(region)
             /\ \A e \in 1..Len(ETFS) :
                  /\ Cardinality(EntryAt(region, ETFS[e], Tk(": ["))) = 1
                  /\ ETFS[e] \notin DictKeys(holdings_by_etf) =>
                       \A i \in EntryAt(region, ETFS[e], Tk(": [")) : At(region, i + 2) = Tk("],")
    /\ PartlyObtained(etf_rets_by_etf) =>
         LET region == Region(disk.text, OE)
         IN  /\ Tk("old") \notin Range(region)
             /\ \A e \in 1..Len(ETFS) :
                  /\ Cardinality(EntryAt(region, ETFS[e], Tk(": {"))) = 1
                  /\ ETFS[e] \notin DictKeys(etf_rets_by_etf) =>
                       \A i \in EntryAt(region, ETFS[e], Tk(": {")) :
                         /\ At(region, i + 14) = Tk("},")
                         /\ \A k \in 1..Len(PERIODS) :
                              /\ At(region, i + 2 * k) = Tk(PERIODS[k])
                              /\ At(region, i + 2 * k + 1) = Tk("  null ")

\* the first instrument has neither holdings nor returns, a later one has both
C18_Witness ==
  /\ pc = "done"
  /\ PartlyObtained(holdings_by_etf)
  /\ PartlyObtained(etf_rets_by_etf)
  /\ "XUTC" \notin DictKeys(holdings_by_etf) \cup DictKeys(etf_rets_by_etf)
  /\ "VWCE" \in DictKeys(holdings_by_etf) \cap DictKeys(etf_rets_by_etf)
  /\ Region(html, OH) = OldRegion(OH)
  /\ Region(disk.text, OH) # OldRegion(OH)

====
